---- MODULE Spec2Model ----
(***************************************************************************)
(* Model of the field-extraction pipeline of the document editor: the      *)
(* analysis endpoint of src/app/api/apply-patterns/route.ts (preprocessor, *)
(* chunker, concurrent per-chunk extraction joined by Promise.all, merger, *)
(* validator and relationship linker), and of the FieldManager component   *)
(* of src/unnamed/part_001 that calls it (document cache, analysis runs,   *)
(* placeholder injection).                                                 *)
(*                                                                         *)
(* A JavaScript string is a sequence of one-character strings, so that     *)
(* length, trimming, splitting and pattern matching are computed and not   *)
(* assumed.                                                                *)
(***************************************************************************)
EXTENDS Integers, Sequences, FiniteSets, TLC

VARIABLES
  documentText,   \* the request body's documentText (<<>>: absent or empty)
  pc,             \* position of the POST handler: "start", "awaiting", "done"
  processedText,  \* preprocessDocument(documentText)
  chunks,         \* splitDocumentIntoChunks(processedText)
  calls,          \* per chunk: outcome of its generateObject call
  invocations,    \* per chunk: number of generateObject calls made for it
  results,        \* per chunk: the value its map callback resolved with
  settleOrder,    \* chunk indexes in the order their calls resolved
  response        \* the response returned to the caller (status 0: none yet)

\* The state of the FieldManager component (src/unnamed/part_001, part_000).
VARIABLES
  identifiedFields,     \* the identifiedFields prop
  placeholdersApplied,  \* the placeholdersApplied state (useState(false))
  container,            \* innerHTML of .document-container (<<>>: no element)
  toast,                \* title of the last toast shown ("": none)
  clicks,               \* number of applyPlaceholders invocations so far
  docxContent,          \* the docxContent and fileName props (<<>>: null)
  effect,               \* the document effect: "none", "active", "torn"
  documentCache,        \* the module-level Map, entries in insertion order
  lookups,              \* the getCachedDocument calls awaiting their rendering
  documentTextState,    \* the documentText state (useState(""))
  opened,               \* number of distinct files opened so far
  isAnalyzing,          \* the isAnalyzing prop
  timers,               \* the pending timers of the debounced analyses
  runs,                 \* the analyzeDocument runs, in the order they started
  completionOrder       \* run indexes in the order the runs completed

serverVars == <<documentText, pc, processedText, chunks, calls, invocations,
                results, settleOrder, response>>
injectorVars ==
  <<identifiedFields, placeholdersApplied, container, toast, clicks>>
cacheVars ==
  <<docxContent, effect, documentCache, lookups, documentTextState, opened>>
analysisVars == <<isAnalyzing, timers, runs, completionOrder>>
clientVars == <<injectorVars, cacheVars, analysisVars>>
vars == <<serverVars, clientVars>>

(***************************************************************************)
(* Bounds of the model.                                                    *)
(***************************************************************************)
\* Stands for CHUNK_SIZE (2000 in route.ts:75, 4000 in part_002:106), scaled
\* down so that short texts span several chunks.
CHUNK_SIZE == 4
\* Longest raw document text drawn by the chunker specification.
MaxTextLen == 9
\* Most candidates the extraction capability returns over all chunks of a
\* request.
MaxCandidates == 3

\* Longest document content drawn for the placeholder injector.
MaxContentLen == 4
\* Most fields in a field list handed to the placeholder injector.
MaxFields == 2
\* Most invocations of applyPlaceholders in one behaviour.
MaxClicks == 3

\* Stands for the cache size above which the effect cleanup sheds entries
\* (100 in part_001:159), scaled down so that few files exceed it.
CacheCeiling == 2
\* Stands for the number of entries the cleanup deletes (50 in part_001:161).
ShedCount == 1

\* Most analyses scheduled or started in one behaviour.
MaxRuns == 2

(***************************************************************************)
(* Characters and character classes of the regular expressions.            *)
(***************************************************************************)
UpperLetters ==
  <<"A","B","C","D","E","F","G","H","I","J","K","L","M",
    "N","O","P","Q","R","S","T","U","V","W","X","Y","Z">>
LowerLetters ==
  <<"a","b","c","d","e","f","g","h","i","j","k","l","m",
    "n","o","p","q","r","s","t","u","v","w","x","y","z">>
Range(s) == {s[i] : i \in DOMAIN s}
\* \d
Digits == {"0","1","2","3","4","5","6","7","8","9"}
\* \s
WhiteSpace == {" ", "\n", "\t", "\r"}
\* \w
WordChars == Range(UpperLetters) \cup Range(LowerLetters) \cup Digits \cup {"_"}
\* [.!?]
Terminators == {".", "!", "?"}

\* First index j >= i with s[j] outside class S (Len(s)+1 if none): the end
\* of a greedy S+ or S* started at i.
RunEndIn(s, i, S) ==
  CHOOSE j \in i..(Len(s) + 1) :
    /\ (j = Len(s) + 1 \/ s[j] \notin S)
    /\ \A k \in i..(j - 1) : s[k] \in S
\* The same for a negated class [^S].
RunEndNotIn(s, i, S) ==
  CHOOSE j \in i..(Len(s) + 1) :
    /\ (j = Len(s) + 1 \/ s[j] \in S)
    /\ \A k \in i..(j - 1) : s[k] \notin S

\* String.prototype.trim
trim(s) ==
  LET keep == {i \in DOMAIN s : s[i] \notin WhiteSpace}
  IN IF keep = {} THEN <<>>
     ELSE LET lo == CHOOSE i \in keep : \A j \in keep : i <= j
              hi == CHOOSE i \in keep : \A j \in keep : j <= i
          IN SubSeq(s, lo, hi)

\* String.prototype.toLowerCase on the characters of the model.
LowerChar(c) ==
  IF c \in Range(UpperLetters)
  THEN LowerLetters[CHOOSE i \in DOMAIN UpperLetters : UpperLetters[i] = c]
  ELSE c
toLowerCase(s) == [i \in DOMAIN s |-> LowerChar(s[i])]

(***************************************************************************)
(* preprocessDocument                                                      *)
(***************************************************************************)
\* text.replace(/\s+/g, " ")
RECURSIVE CollapseWhiteSpace(_, _)
CollapseWhiteSpace(s, i) ==
  IF i > Len(s) THEN <<>>
  ELSE IF s[i] \in WhiteSpace
       THEN <<" ">> \o CollapseWhiteSpace(s, RunEndIn(s, i, WhiteSpace))
       ELSE <<s[i]>> \o CollapseWhiteSpace(s, i + 1)

\* text.replace(/\n\s*\n/g, "\n"): from a line feed, \s* is greedy and backs
\* off to the last line feed of the white-space run.
RECURSIVE CollapseBlankLines(_, _)
CollapseBlankLines(s, i) ==
  IF i > Len(s) THEN <<>>
  ELSE IF s[i] = "\n"
       THEN LET e == RunEndIn(s, i + 1, WhiteSpace)
                nl == {j \in (i + 1)..(e - 1) : s[j] = "\n"}
            IN IF nl = {} THEN <<s[i]>> \o CollapseBlankLines(s, i + 1)
               ELSE LET last == CHOOSE j \in nl : \A k \in nl : k <= j
                    IN <<"\n">> \o CollapseBlankLines(s, last + 1)
       ELSE <<s[i]>> \o CollapseBlankLines(s, i + 1)

\* text.replace(/[^\S\r\n]+/g, " ")
RECURSIVE CollapseSpaces(_, _)
CollapseSpaces(s, i) ==
  IF i > Len(s) THEN <<>>
  ELSE IF s[i] \in WhiteSpace \ {"\r", "\n"}
       THEN <<" ">>
            \o CollapseSpaces(s, RunEndIn(s, i, WhiteSpace \ {"\r", "\n"}))
       ELSE <<s[i]>> \o CollapseSpaces(s, i + 1)

preprocessDocument(text) ==
  trim(CollapseSpaces(CollapseBlankLines(CollapseWhiteSpace(text, 1), 1), 1))

(***************************************************************************)
(* splitDocumentIntoChunks                                                 *)
(***************************************************************************)
\* text.match(/[^.!?]+[.!?]+/g): the successive leftmost greedy matches,
\* scanning on from index i.
RECURSIVE MatchSentences(_, _)
MatchSentences(text, i) ==
  IF i > Len(text) THEN <<>>
  ELSE IF text[i] \in Terminators THEN MatchSentences(text, i + 1)
  ELSE LET j == RunEndNotIn(text, i, Terminators)
       IN IF j > Len(text) THEN <<>>
          ELSE LET k == RunEndIn(text, j, Terminators)
               IN <<SubSeq(text, i, k - 1)>> \o MatchSentences(text, k)

\* text.match(...) || [text]
Sentences(text) ==
  LET m == MatchSentences(text, 1) IN IF m = <<>> THEN <<text>> ELSE m

\* potentialChunkSize > CHUNK_SIZE, as an off-by-sentence slip would write it
\* (the size is tested before the sentence is added).
ExceedsLimitBeforeAdding(currentChunk, sentence) ==
  Len(currentChunk) > CHUNK_SIZE
\* potentialChunkSize > CHUNK_SIZE
ExceedsLimit(currentChunk, sentence) ==
  Len(currentChunk \o sentence) > CHUNK_SIZE

\* chunks.push(currentChunk.trim()) under `if (currentChunk)`
PushChunk(chunkList, currentChunk) ==
  IF currentChunk # <<>> THEN Append(chunkList, trim(currentChunk))
  ELSE chunkList

\* The for loop over the sentences, from sentence k on, and the final flush.
RECURSIVE ChunkLoop(_, _, _, _)
ChunkLoop(sentences, k, chunkList, currentChunk) ==
  IF k > Len(sentences) THEN PushChunk(chunkList, currentChunk)
  ELSE IF ExceedsLimit(currentChunk, sentences[k])
       THEN ChunkLoop(sentences, k + 1, PushChunk(chunkList, currentChunk),
                      sentences[k])
       ELSE ChunkLoop(sentences, k + 1, chunkList,
                      currentChunk \o sentences[k])

splitDocumentIntoChunks(text) == ChunkLoop(Sentences(text), 1, <<>>, <<>>)

(***************************************************************************)
(* Anchor texts (replacement strings) the extraction capability may return, *)
(* as character sequences.                                                 *)
(***************************************************************************)
\* "Email: "
StrEmailLabel ==
  <<"E","m","a","i","l",":"," ">>
\* "a@b.co"
StrEmailValue ==
  <<"a","@","b",".","c","o">>
\* "a@b"
StrEmailNoDot ==
  <<"a","@","b">>
\* "Email: a@b.co"
StrEmailLabelled ==
  <<"E","m","a","i","l",":"," ","a","@","b",".","c","o">>
\* "Emergency Contact Name:"
StrEmergencyContactName ==
  <<"E","m","e","r","g","e","n","c","y"," ","C","o","n",
    "t","a","c","t"," ","N","a","m","e",":">>
\* "Emergency Contact Phone:"
StrEmergencyContactPhone ==
  <<"E","m","e","r","g","e","n","c","y"," ","C","o","n",
    "t","a","c","t"," ","P","h","o","n","e",":">>
\* "555-123-4567"
StrPhoneValue ==
  <<"5","5","5","-","1","2","3","-","4","5","6","7">>
\* "+1 (555) 123-4567"
StrPhonePlus ==
  <<"+","1"," ","(","5","5","5",")"," ","1","2","3","-",
    "4","5","6","7">>
\* "555-1234"
StrPhoneShort ==
  <<"5","5","5","-","1","2","3","4">>
\* "First Name:"
StrFirstName ==
  <<"F","i","r","s","t"," ","N","a","m","e",":">>
\* "Last Name:"
StrLastName ==
  <<"L","a","s","t"," ","N","a","m","e",":">>
\* "12-25-2024"
StrDateValue ==
  <<"1","2","-","2","5","-","2","0","2","4">>
\* "13-25-2024"
StrDateBadMonth ==
  <<"1","3","-","2","5","-","2","0","2","4">>
\* "12-32-2024"
StrDateBadDay ==
  <<"1","2","-","3","2","-","2","0","2","4">>
\* "42"
StrNumberInt ==
  <<"4","2">>
\* "4.2"
StrNumberDec ==
  <<"4",".","2">>
\* "4."
StrNumberDot ==
  <<"4",".">>
\* "1 Main St."
StrAddressValue ==
  <<"1"," ","M","a","i","n"," ","S","t",".">>
\* "Sign:"
StrSignLabel ==
  <<"S","i","g","n",":">>

(***************************************************************************)
(* fieldTypeValidation: the patterns, each as RegExp.prototype.test        *)
(* computes it on a character sequence.                                    *)
(***************************************************************************)
AllIn(s, lo, hi, S) == \A k \in lo..hi : s[k] \in S

\* /^(0[1-9]|1[0-2])-(0[1-9]|[12]\d|3[01])-\d{4}$/
TestDate(s) ==
  /\ Len(s) = 10
  /\ \/ s[1] = "0" /\ s[2] \in Digits \ {"0"}
     \/ s[1] = "1" /\ s[2] \in {"0", "1", "2"}
  /\ s[3] = "-"
  /\ \/ s[4] = "0" /\ s[5] \in Digits \ {"0"}
     \/ s[4] \in {"1", "2"} /\ s[5] \in Digits
     \/ s[4] = "3" /\ s[5] \in {"0", "1"}
  /\ s[6] = "-"
  /\ AllIn(s, 7, 10, Digits)

\* /^[^\s@]+@[^\s@]+\.[^\s@]+$/
TestEmail(s) ==
  LET Plain(lo, hi) ==
        lo <= hi /\ \A k \in lo..hi : s[k] \notin WhiteSpace \cup {"@"}
  IN \E a \in DOMAIN s : \E d \in DOMAIN s :
       /\ s[a] = "@"
       /\ s[d] = "."
       /\ Plain(1, a - 1)
       /\ Plain(a + 1, d - 1)
       /\ Plain(d + 1, Len(s))

\* /^\+?[\d\s-()]{10,}$/
TestPhone(s) ==
  LET from == IF s # <<>> /\ s[1] = "+" THEN 2 ELSE 1
  IN /\ Len(s) - from + 1 >= 10
     /\ AllIn(s, from, Len(s), Digits \cup WhiteSpace \cup {"-", "(", ")"})

\* /^\d+(\.\d+)?$/
TestNumber(s) ==
  \/ s # <<>> /\ AllIn(s, 1, Len(s), Digits)
  \/ \E d \in DOMAIN s :
       /\ s[d] = "."
       /\ 1 < d /\ d < Len(s)
       /\ AllIn(s, 1, d - 1, Digits)
       /\ AllIn(s, d + 1, Len(s), Digits)

\* /^[\w\s,.-]+$/
TestAddress(s) ==
  s # <<>> /\ AllIn(s, 1, Len(s), WordChars \cup WhiteSpace \cup {",", ".", "-"})

\* The own keys of the fieldTypeValidation object.
PatternTypes == {"date", "email", "phone", "number", "address"}
\* Property names every object inherits from Object.prototype (those the
\* model draws): looked up on fieldTypeValidation they give a value that is
\* truthy and has no test method.
InheritedKeys == {"constructor"}

\* fieldTypeValidation[type]: the key of the pattern found, "inherited" for a
\* member of Object.prototype, "undefined" otherwise.
fieldTypeValidation(type) ==
  IF type \in PatternTypes THEN type
  ELSE IF type \in InheritedKeys THEN "inherited"
  ELSE "undefined"

\* pattern.test(text) for the pattern stored under key.
PatternTest(key, text) ==
  CASE key = "date" -> TestDate(text)
    [] key = "email" -> TestEmail(text)
    [] key = "phone" -> TestPhone(text)
    [] key = "number" -> TestNumber(text)
    [] key = "address" -> TestAddress(text)

(***************************************************************************)
(* validateFieldType, validateFields, mergeFieldResults                    *)
(***************************************************************************)
\* {...field, confidence}
WithConfidence(field, confidence) ==
  [name |-> field.name, type |-> field.type,
   description |-> field.description, placeholder |-> field.placeholder,
   required |-> field.required, replacement |-> field.replacement,
   confidence |-> confidence]

\* validateFieldType throws a TypeError when pattern is truthy and
\* pattern.test is not a function.
validateFieldTypeThrows(field) ==
  fieldTypeValidation(field.type) = "inherited"

\* validateFieldType with the two confidence values exchanged.
validateFieldTypeSwapped(field) ==
  LET pattern == fieldTypeValidation(field.type)
  IN IF pattern # "undefined" /\ ~PatternTest(pattern, field.replacement)
     THEN WithConfidence(field, "high")
     ELSE WithConfidence(field, "low")
\* validateFieldType, where it does not throw
validateFieldType(field) ==
  LET pattern == fieldTypeValidation(field.type)
  IN IF pattern # "undefined" /\ ~PatternTest(pattern, field.replacement)
     THEN WithConfidence(field, "low")
     ELSE WithConfidence(field, "high")

\* A Map is the sequence of its entries in insertion order.
MapHas(m, key) == \E i \in DOMAIN m : m[i].key = key
\* Map.prototype.set that adds an entry even for a key already present.
MapSetNoDedup(m, key, value) == Append(m, [key |-> key, value |-> value])
\* Map.prototype.set that keeps the value a key already has.
MapSetKeepFirst(m, key, value) ==
  IF MapHas(m, key) THEN m ELSE Append(m, [key |-> key, value |-> value])
\* Map.prototype.set that moves a key already present to the end.
MapSetMoveLast(m, key, value) ==
  Append(SelectSeq(m, LAMBDA e : e.key # key), [key |-> key, value |-> value])
\* Map.prototype.set: a key already present keeps its position and takes the
\* new value.
MapSet(m, key, value) ==
  IF MapHas(m, key)
  THEN [i \in DOMAIN m |->
          IF m[i].key = key THEN [key |-> key, value |-> value] ELSE m[i]]
  ELSE Append(m, [key |-> key, value |-> value])

\* new Map(fields.map((f) => [f.replacement, f])), entries 1..n set in order
RECURSIVE NewMap(_, _)
NewMap(fields, n) ==
  IF n = 0 THEN <<>>
  ELSE MapSet(NewMap(fields, n - 1), fields[n].replacement, fields[n])

\* Array.from(map.values())
uniqueFields(fields) ==
  LET m == NewMap(fields, Len(fields)) IN [i \in DOMAIN m |-> m[i].value]

\* text.split(/\W+/), from a token starting at index i
RECURSIVE SplitNonWord(_, _)
SplitNonWord(s, i) ==
  LET j == RunEndIn(s, i, WordChars)
  IN IF j > Len(s) THEN <<SubSeq(s, i, Len(s))>>
     ELSE <<SubSeq(s, i, j - 1)>>
          \o SplitNonWord(s, RunEndNotIn(s, j, WordChars))

\* new Set(replacement.toLowerCase().split(/\W+/))
Words(replacement) == Range(SplitNonWord(toLowerCase(replacement), 1))

\* The filter of lines 145-152: commonWords.length >= 2
Related(a, b) ==
  Cardinality(Words(a.replacement) \cap Words(b.replacement)) >= 2

\* The elements of a set of numbers in increasing order.
RECURSIVE Ascending(_)
Ascending(S) ==
  IF S = {} THEN <<>>
  ELSE LET m == CHOOSE x \in S : \A y \in S : x <= y
       IN <<m>> \o Ascending(S \ {m})

\* The relationships of unique[i]: the names of the other fields (f !== field
\* is object identity, here the position) that pass the filter, in order.
Relationships(unique, i) ==
  LET others == Ascending({j \in DOMAIN unique :
                             j # i /\ Related(unique[i], unique[j])})
  IN [k \in DOMAIN others |-> unique[others[k]].name]

\* {...validatedField, relationships}
WithRelationships(v, relationships) ==
  [name |-> v.name, type |-> v.type, description |-> v.description,
   placeholder |-> v.placeholder, required |-> v.required,
   replacement |-> v.replacement, confidence |-> v.confidence,
   relationships |-> relationships]

\* validateFields throws when validateFieldType throws for a unique field
validateFieldsThrows(fields) ==
  LET unique == uniqueFields(fields)
  IN \E i \in DOMAIN unique : validateFieldTypeThrows(unique[i])
\* validateFields, where it does not throw
validateFields(fields) ==
  LET unique == uniqueFields(fields)
  IN [i \in DOMAIN unique |->
        WithRelationships(validateFieldType(unique[i]),
                          Relationships(unique, i))]

\* results.flatMap((r) => r.fields || []), for results 1..n
RECURSIVE FlatMapFields(_, _)
FlatMapFields(res, n) ==
  IF n = 0 THEN <<>> ELSE FlatMapFields(res, n - 1) \o res[n].fields

mergeFieldResultsThrows(res) ==
  validateFieldsThrows(FlatMapFields(res, Len(res)))
mergeFieldResults(res) == validateFields(FlatMapFields(res, Len(res)))

(***************************************************************************)
(* The stricter variant of the validator (src/unnamed/part_002, 133-183).  *)
(* An optional property is a sequence of length 0 (absent) or 1.           *)
(***************************************************************************)
\* {...field, type, confidence, originalType}
WithTypeAndConfidence(field, type, confidence, originalType) ==
  [name |-> field.name, type |-> type,
   description |-> field.description, placeholder |-> field.placeholder,
   required |-> field.required, replacement |-> field.replacement,
   confidence |-> confidence, originalType |-> originalType]

\* part_002's validateFieldType keeping the declared type of a failing field,
\* as the validateFieldType of route.ts does.
validateFieldTypeStrictKeepsType(field) ==
  LET pattern == fieldTypeValidation(field.type)
  IN IF pattern # "undefined" /\ ~PatternTest(pattern, field.replacement)
     THEN WithTypeAndConfidence(field, field.type, "low", <<>>)
     ELSE WithTypeAndConfidence(field, field.type, "high", <<>>)
\* part_002's validateFieldType, where it does not throw
validateFieldTypeStrict(field) ==
  LET pattern == fieldTypeValidation(field.type)
  IN IF pattern # "undefined" /\ ~PatternTest(pattern, field.replacement)
     THEN WithTypeAndConfidence(field, "text", "low", <<field.type>>)
     ELSE WithTypeAndConfidence(field, field.type, "high", <<>>)

\* {...validatedField, relationships: relationships.length > 0 ?
\* relationships : undefined}
WithOptionalRelationships(v, relationships) ==
  [name |-> v.name, type |-> v.type, description |-> v.description,
   placeholder |-> v.placeholder, required |-> v.required,
   replacement |-> v.replacement, confidence |-> v.confidence,
   originalType |-> v.originalType,
   relationships |->
     IF Len(relationships) > 0 THEN <<relationships>> ELSE <<>>]

\* part_002's validateFields, where it does not throw
validateFieldsStrict(fields) ==
  LET unique == uniqueFields(fields)
  IN [i \in DOMAIN unique |->
        WithOptionalRelationships(validateFieldTypeStrict(unique[i]),
                                  Relationships(unique, i))]

\* part_002's mergeFieldResults, where it does not throw
mergeFieldResultsStrict(res) ==
  validateFieldsStrict(FlatMapFields(res, Len(res)))

(***************************************************************************)
(* What the extraction capability may return: schema-valid candidates      *)
(* (lines 201-211: six fields, type any string).                           *)
(***************************************************************************)
Candidate(name, type, description, placeholder, required, replacement) ==
  [name |-> name, type |-> type, description |-> description,
   placeholder |-> placeholder, required |-> required,
   replacement |-> replacement]

CandEmail ==
  Candidate("email", "email", "email", "[[EMAIL]]", TRUE, StrEmailLabel)
\* The anchor of CandEmail, seen again with other metadata.
CandContact ==
  Candidate("contact_email", "text", "contact", "[[CONTACT_EMAIL]]", FALSE,
            StrEmailLabel)
CandEmergencyName ==
  Candidate("emergency_contact_name", "text", "name",
            "[[EMERGENCY_CONTACT_NAME]]", TRUE, StrEmergencyContactName)
CandEmergencyPhone ==
  Candidate("emergency_contact_phone", "phone", "phone",
            "[[EMERGENCY_CONTACT_PHONE]]", TRUE, StrEmergencyContactPhone)
\* The name of CandEmergencyPhone, given to another anchor.
CandPhoneValue ==
  Candidate("emergency_contact_phone", "phone", "phone",
            "[[EMERGENCY_CONTACT_PHONE]]", FALSE, StrPhoneValue)
CandFirstName ==
  Candidate("first_name", "text", "first name", "[[FIRST_NAME]]", TRUE,
            StrFirstName)
CandLastName ==
  Candidate("last_name", "text", "last name", "[[LAST_NAME]]", TRUE,
            StrLastName)
\* A type string that names a member of Object.prototype.
CandSign ==
  Candidate("signature", "constructor", "signature", "[[SIGNATURE]]", TRUE,
            StrSignLabel)

Candidates ==
  {CandEmail, CandContact, CandEmergencyName, CandEmergencyPhone,
   CandPhoneValue, CandFirstName, CandLastName, CandSign}

\* Every type string with every anchor text, for the validator.
Types ==
  {"date", "email", "phone", "number", "address", "text", "checkbox",
   "signature", "constructor"}
Anchors ==
  {<<>>, StrEmailLabel, StrEmailValue, StrEmailNoDot, StrEmailLabelled,
   StrPhoneValue, StrPhonePlus, StrPhoneShort, StrFirstName, StrDateValue,
   StrDateBadMonth, StrDateBadDay, StrNumberInt, StrNumberDec, StrNumberDot,
   StrAddressValue}
TypedCandidates ==
  {Candidate("field", t, "field", "[[FIELD]]", TRUE, a) :
     t \in Types, a \in Anchors}

\* The sequences over S of length at most n.
SeqsUpTo(S, n) == UNION {[1..k -> S] : k \in 0..n}

\* The per-chunk outputs the request specification draws from.
ChunkOutputs ==
  {<<>>, <<CandEmail>>, <<CandContact>>, <<CandEmergencyName, CandEmail>>,
   <<CandSign>>}

(***************************************************************************)
(* Document texts.                                                         *)
(***************************************************************************)
\* The characters of the texts the chunker specification draws.
TextChars == {"a", " ", "."}
Texts == SeqsUpTo(TextChars, MaxTextLen)

\* " ": not empty, and empty once preprocessed
DocBlank == <<" ">>
\* "ab."
DocOne == <<"a","b",".">>
\* "ab. cd?"
DocTwo == <<"a","b","."," ","c","d","?">>
\* "ab. cd? ef!"
DocThree == <<"a","b","."," ","c","d","?"," ","e","f","!">>
Docs == {<<>>, DocBlank, DocOne, DocTwo, DocThree}

(***************************************************************************)
(* The POST handler (lines 169-285).                                       *)
(***************************************************************************)
NoResponse == [status |-> 0, error |-> "", object |-> <<>>]
\* NextResponse.json({ error }, { status })
ErrorResponse(status, error) ==
  [status |-> status, error |-> error, object |-> <<>>]
\* NextResponse.json({ object: { fields, metadata } }): the metadata that do
\* not measure time
ObjectResponse(fields, nChunks) ==
  [status |-> 200, error |-> "",
   object |-> <<[fields |-> fields, totalFields |-> Len(fields),
                 chunksProcessed |-> nChunks]>>]

\* The value of a promise not yet settled, and of one fulfilled with v.
Unsettled == <<>>
Fulfilled(v) == <<v>>

\* The FieldManager component as first rendered, with no fields identified
\* and no document shown.
InjectorIdle ==
  /\ identifiedFields = <<>>
  /\ placeholdersApplied = FALSE
  /\ container = <<>>
  /\ toast = ""
  /\ clicks = 0
CacheIdle ==
  /\ docxContent = <<>>
  /\ effect = "none"
  /\ documentCache = <<>>
  /\ lookups = <<>>
  /\ documentTextState = <<>>
  /\ opened = 0
AnalysisIdle ==
  /\ isAnalyzing = FALSE
  /\ timers = <<>>
  /\ runs = <<>>
  /\ completionOrder = <<>>
ClientIdle == InjectorIdle /\ CacheIdle /\ AnalysisIdle

\* The state of the handler before the request is read.
Start(text) ==
  /\ documentText = text
  /\ pc = "start"
  /\ processedText = <<>>
  /\ chunks = <<>>
  /\ calls = <<>>
  /\ invocations = <<>>
  /\ results = <<>>
  /\ settleOrder = <<>>
  /\ response = NoResponse
  /\ ClientIdle

\* The handler without the input check of lines 174-179.
POSTBeginNoCheck ==
  /\ pc = "start"
  /\ LET processed == preprocessDocument(documentText)
         split == splitDocumentIntoChunks(processed)
     IN /\ pc' = "awaiting"
        /\ processedText' = processed
        /\ chunks' = split
        /\ calls' = [i \in DOMAIN split |-> "pending"]
        /\ invocations' = [i \in DOMAIN split |-> 1]
        /\ results' = [i \in DOMAIN split |-> Unsettled]
        /\ response' = NoResponse
  /\ UNCHANGED <<documentText, settleOrder>>
  /\ UNCHANGED clientVars
\* Lines 171-196: the input check, the preprocessing, the chunking, and
\* chunks.map starting one generateObject call per chunk.
POSTBegin ==
  /\ pc = "start"
  /\ IF documentText = <<>>
     THEN /\ pc' = "done"
          /\ response' = ErrorResponse(400, "Document text is required")
          /\ UNCHANGED <<processedText, chunks, calls, invocations, results>>
     ELSE LET processed == preprocessDocument(documentText)
              split == splitDocumentIntoChunks(processed)
          IN /\ pc' = "awaiting"
             /\ processedText' = processed
             /\ chunks' = split
             /\ calls' = [i \in DOMAIN split |-> "pending"]
             /\ invocations' = [i \in DOMAIN split |-> 1]
             /\ results' = [i \in DOMAIN split |-> Unsettled]
             /\ response' = NoResponse
  /\ UNCHANGED <<documentText, settleOrder>>
  /\ UNCHANGED clientVars

\* Lines 199-237: the generateObject call of chunk i resolves with fields
\* out, and the map callback returns the result.
ChunkFulfil(i, out) ==
  /\ calls[i] = "pending"
  /\ calls' = [calls EXCEPT ![i] = "fulfilled"]
  /\ results' =
       [results EXCEPT ![i] = Fulfilled([object |-> [fields |-> out]])]
  /\ settleOrder' = Append(settleOrder, i)
  /\ UNCHANGED <<documentText, pc, processedText, chunks, invocations,
                 response>>
  /\ UNCHANGED clientVars

\* The catch block of lines 238-241 returning an empty result for the chunk
\* instead of rethrowing.
ChunkRejectSwallowed(i) ==
  /\ calls[i] = "pending"
  /\ calls' = [calls EXCEPT ![i] = "rejected"]
  /\ results' =
       [results EXCEPT ![i] = Fulfilled([object |-> [fields |-> <<>>]])]
  /\ settleOrder' = Append(settleOrder, i)
  /\ UNCHANGED <<documentText, pc, processedText, chunks, invocations,
                 response>>
  /\ UNCHANGED clientVars
\* Lines 238-241 and 278-284: the generateObject call of chunk i throws, the
\* callback rethrows, Promise.all rejects at its first rejection and the
\* handler's catch answers 500. A rejection after the response changes
\* nothing more.
ChunkReject(i) ==
  /\ calls[i] = "pending"
  /\ calls' = [calls EXCEPT ![i] = "rejected"]
  /\ IF pc = "awaiting"
     THEN /\ pc' = "done"
          /\ response' = ErrorResponse(500, "Failed to analyze document")
     ELSE UNCHANGED <<pc, response>>
  /\ UNCHANGED <<documentText, processedText, chunks, invocations, results,
                 settleOrder>>
  /\ UNCHANGED clientVars

\* Promise.all handing over the values in the order the promises settled.
PromiseAllInSettleOrder(res, order) ==
  [k \in DOMAIN order |-> res[order[k]][1].object]
\* Lines 195 and 252: the array Promise.all resolves with holds the value of
\* promise i at index i; results.map((r) => r.object).
PromiseAllValues(res, order) ==
  [i \in DOMAIN res |-> res[i][1].object]

\* Lines 245-284: every callback has resolved; merge, and answer 200, or 500
\* from the catch when the merge throws.
POSTRespond ==
  /\ pc = "awaiting"
  /\ \A i \in DOMAIN results : results[i] # Unsettled
  /\ LET objects == PromiseAllValues(results, settleOrder)
     IN response' =
          IF mergeFieldResultsThrows(objects)
          THEN ErrorResponse(500, "Failed to analyze document")
          ELSE ObjectResponse(mergeFieldResults(objects), Len(chunks))
  /\ pc' = "done"
  /\ UNCHANGED <<documentText, processedText, chunks, calls, invocations,
                 results, settleOrder>>
  /\ UNCHANGED clientVars

(***************************************************************************)
(* Spec: one analysis request, from the request to the response, with the  *)
(* chunk calls settling in any order.                                      *)
(***************************************************************************)
Init == \E text \in Docs : Start(text)

Next ==
  \/ POSTBegin
  \/ \E i \in DOMAIN calls : \E out \in ChunkOutputs : ChunkFulfil(i, out)
  \/ \E i \in DOMAIN calls : ChunkReject(i)
  \/ POSTRespond

Spec == Init /\ [][Next]_vars

(***************************************************************************)
(* ChunkerSpec: the preprocessor and the chunker on every text over        *)
(* TextChars of length at most MaxTextLen.                                 *)
(***************************************************************************)
ChunkerInit == \E text \in Texts : Start(text)

ChunkerNext == POSTBegin

ChunkerSpec == ChunkerInit /\ [][ChunkerNext]_vars

(***************************************************************************)
(* MergeSpec: the merge on every list of per-chunk candidate lists within  *)
(* the bounds. It starts where every chunk call of a request has resolved. *)
(***************************************************************************)
\* The flattened candidate sequences drawn.
MergeInputs ==
  SeqsUpTo(Candidates, MaxCandidates) \cup {<<c>> : c \in TypedCandidates}

\* flat cut into n consecutive per-chunk lists at the places cuts.
CutIntoChunks(flat, n, cuts) ==
  [i \in 1..n |->
     SubSeq(flat, (IF i = 1 THEN 0 ELSE cuts[i - 1]) + 1,
            IF i = n THEN Len(flat) ELSE cuts[i])]

MergeInit ==
  \E text \in {DocOne, DocTwo} :
    LET processed == preprocessDocument(text)
        split == splitDocumentIntoChunks(processed)
        n == Len(split)
    IN \E flat \in MergeInputs : \E cuts \in [1..(n - 1) -> 0..Len(flat)] :
         /\ \A i \in 1..(n - 2) : cuts[i] <= cuts[i + 1]
         /\ documentText = text
         /\ pc = "awaiting"
         /\ processedText = processed
         /\ chunks = split
         /\ calls = [i \in 1..n |-> "fulfilled"]
         /\ invocations = [i \in 1..n |-> 1]
         /\ results =
              [i \in 1..n |->
                 Fulfilled([object |->
                              [fields |-> CutIntoChunks(flat, n, cuts)[i]]])]
         /\ settleOrder = [i \in 1..n |-> i]
         /\ response = NoResponse
         /\ ClientIdle

MergeNext == POSTRespond

MergeSpec == MergeInit /\ [][MergeNext]_vars

(***************************************************************************)
(* StrictMergeSpec: the merge of the stricter variant (part_002) on the     *)
(* same inputs as MergeSpec.                                               *)
(***************************************************************************)
\* part_002, 243-254: the metadata that do not measure time
ObjectResponseStrict(fields, nChunks) ==
  [status |-> 200, error |-> "",
   object |-> <<[fields |-> fields, totalFields |-> Len(fields),
                 totalChunks |-> nChunks]>>]

\* part_002, 240-261: every call has resolved; merge, and answer 200, or 500
\* from the catch when the merge throws.
POSTRespondStrict ==
  /\ pc = "awaiting"
  /\ \A i \in DOMAIN results : results[i] # Unsettled
  /\ LET objects == PromiseAllValues(results, settleOrder)
     IN response' =
          IF mergeFieldResultsThrows(objects)
          THEN ErrorResponse(500, "Failed to analyze document")
          ELSE ObjectResponseStrict(mergeFieldResultsStrict(objects),
                                    Len(chunks))
  /\ pc' = "done"
  /\ UNCHANGED <<documentText, processedText, chunks, calls, invocations,
                 results, settleOrder>>
  /\ UNCHANGED clientVars

StrictMergeNext == POSTRespondStrict

StrictMergeSpec == MergeInit /\ [][StrictMergeNext]_vars

(***************************************************************************)
(* The placeholder injector (src/unnamed/part_001, 94-110; the same body   *)
(* is applyPlaceholders of part_000, 49-65).                               *)
(***************************************************************************)
\* The characters of the class [.*+?^${}()|[\]\\]
RegExpSpecials ==
  {".", "*", "+", "?", "^", "$", "{", "}", "(", ")", "|", "[", "]", "\\"}

\* k.replace(/[.*+?^${}()|[\]\\]/g, "\\$&") leaving every character as it is.
escapeRegExpNothing(k) == k
\* k.replace(/[.*+?^${}()|[\]\\]/g, "\\$&")
RECURSIVE escapeRegExp(_)
escapeRegExp(k) ==
  IF k = <<>> THEN <<>>
  ELSE (IF Head(k) \in RegExpSpecials THEN <<"\\", Head(k)>> ELSE <<Head(k)>>)
       \o escapeRegExp(Tail(k))

\* Array.from(fieldMap.keys()).map(escape).join("|"), for entries 1..n
RECURSIVE RegExpSource(_, _)
RegExpSource(fieldMap, n) ==
  IF n = 0 THEN <<>>
  ELSE IF n = 1 THEN escapeRegExp(fieldMap[1].key)
  ELSE RegExpSource(fieldMap, n - 1) \o <<"|">>
       \o escapeRegExp(fieldMap[n].key)

\* A parsed pattern is the sequence of its alternatives, an alternative the
\* sequence of its atoms: a literal character, or the dot.
Literal(c) == [any |-> FALSE, ch |-> c]
AnyChar == [any |-> TRUE, ch |-> "."]
\* new RegExp(source, "g"), for the syntax the sources built above can hold:
\* a backslash makes the next character a literal, | separates alternatives,
\* a dot stands for any character but a line terminator. alts holds the
\* alternatives read so far, the last one still open.
RECURSIVE ParseRegExp(_, _, _)
ParseRegExp(source, i, alts) ==
  LET n == Len(alts)
  IN IF i > Len(source) THEN alts
     ELSE IF source[i] = "\\" /\ i < Len(source)
     THEN ParseRegExp(source, i + 2,
                      [alts EXCEPT ![n] = Append(@, Literal(source[i + 1]))])
     ELSE IF source[i] = "|"
     THEN ParseRegExp(source, i + 1, Append(alts, <<>>))
     ELSE IF source[i] = "."
     THEN ParseRegExp(source, i + 1, [alts EXCEPT ![n] = Append(@, AnyChar)])
     ELSE ParseRegExp(source, i + 1,
                      [alts EXCEPT ![n] = Append(@, Literal(source[i]))])

\* Alternative alt matches content from index i on.
MatchesAt(content, i, alt) ==
  /\ i + Len(alt) - 1 <= Len(content)
  /\ \A j \in DOMAIN alt :
       IF alt[j].any THEN content[i + j - 1] \notin {"\n", "\r"}
       ELSE content[i + j - 1] = alt[j].ch

\* The first alternative, in the order of the pattern, that matches at i
\* (0: none does).
FirstAlternativeAt(content, i, alts) ==
  LET matching == {n \in DOMAIN alts : MatchesAt(content, i, alts[n])}
  IN IF matching = {} THEN 0
     ELSE CHOOSE n \in matching : \A m \in matching : n <= m

\* fieldMap.get(match)?.placeholder || ""
PlaceholderFor(fieldMap, match) ==
  IF MapHas(fieldMap, match)
  THEN (CHOOSE e \in Range(fieldMap) : e.key = match).value.placeholder
  ELSE <<>>

\* The replacer of line 107: `${match} ${placeholder}`
Replacer(fieldMap, match) ==
  match \o <<" ">> \o PlaceholderFor(fieldMap, match)

\* content.replace(regex, replacer) with a global regex, from index i on: the
\* leftmost match is replaced and the scan goes on behind it; after an empty
\* match the scan steps over one character, which is copied.
RECURSIVE ReplaceAll(_, _, _, _)
ReplaceAll(content, i, alts, fieldMap) ==
  LET n == FirstAlternativeAt(content, i, alts)
      copied == IF i > Len(content) THEN <<>>
                ELSE <<content[i]>> \o ReplaceAll(content, i + 1, alts, fieldMap)
  IN IF i > Len(content) + 1 THEN <<>>
     ELSE IF n = 0 THEN copied
     ELSE IF Len(alts[n]) = 0 THEN Replacer(fieldMap, <<>>) \o copied
     ELSE Replacer(fieldMap, SubSeq(content, i, i + Len(alts[n]) - 1))
          \o ReplaceAll(content, i + Len(alts[n]), alts, fieldMap)

\* applyPlaceholdersOptimized(content, fields)
applyPlaceholdersOptimized(content, fields) ==
  LET fieldMap == NewMap(fields, Len(fields))
      regex == ParseRegExp(RegExpSource(fieldMap, Len(fieldMap)), 1, <<<<>>>>)
  IN ReplaceAll(content, 1, regex, fieldMap)

(***************************************************************************)
(* Inputs of the injector: fields with their anchor and placeholder, and   *)
(* document contents.                                                      *)
(***************************************************************************)
IdentifiedField(replacement, placeholder) ==
  [replacement |-> replacement, placeholder |-> placeholder]

StrFullNameAnchor ==
  <<"F", "u", "l", "l", " ", "N", "a", "m", "e", ":">>
StrFullNamePlaceholder ==
  <<"[", "[", "F", "U", "L", "L", "_", "N", "A", "M", "E", "]", "]">>
StrFullNameLine ==
  <<"F", "u", "l", "l", " ", "N", "a", "m", "e", ":", " ", "_", "_",
    "_", "_">>
StrFullNameInjected ==
  <<"F", "u", "l", "l", " ", "N", "a", "m", "e", ":", " ", "[", "[",
    "F", "U", "L", "L", "_", "N", "A", "M", "E", "]", "]", " ", "_",
    "_", "_", "_">>

FieldFullName == IdentifiedField(StrFullNameAnchor, StrFullNamePlaceholder)
FieldA == IdentifiedField(<<"a">>, <<"[", "A", "]">>)
\* the anchor of FieldA with another placeholder
FieldAAgain == IdentifiedField(<<"a">>, <<"[", "B", "]">>)
FieldADot == IdentifiedField(<<"a", ".">>, <<"[", "C", "]">>)
FieldDot == IdentifiedField(<<".">>, <<"[", "D", "]">>)
FieldBar == IdentifiedField(<<".", "|", "a">>, <<"[", "E", "]">>)
\* an empty anchor, and an empty placeholder
FieldNoAnchor == IdentifiedField(<<>>, <<"[", "F", "]">>)
FieldNoPlaceholder == IdentifiedField(<<".", "a">>, <<>>)
IdentifiedFields ==
  {FieldFullName, FieldA, FieldAAgain, FieldADot, FieldDot, FieldBar,
   FieldNoAnchor, FieldNoPlaceholder}

ContentChars == {"a", ".", "|"}
Contents == SeqsUpTo(ContentChars, MaxContentLen) \cup {StrFullNameLine}

(***************************************************************************)
(* The applyPlaceholders handler of the component (part_001, 223-267;      *)
(* handleApplyPlaceholders of part_000, 148-189). It holds no await: one   *)
(* invocation is one step. Its catch is not reached with fields whose      *)
(* replacement is a string.                                                *)
(***************************************************************************)
\* The handler without the placeholdersApplied test of lines 233-239.
applyPlaceholdersUnguarded ==
  /\ clicks < MaxClicks
  /\ clicks' = clicks + 1
  /\ IF Len(identifiedFields) = 0
     THEN /\ toast' = "No Fields"
          /\ UNCHANGED <<placeholdersApplied, container>>
     ELSE IF container = <<>>
     THEN UNCHANGED <<toast, placeholdersApplied, container>>
     ELSE /\ container' =
               <<applyPlaceholdersOptimized(container[1], identifiedFields)>>
          /\ placeholdersApplied' = TRUE
          /\ toast' = "Placeholders Applied"
  /\ UNCHANGED <<identifiedFields, serverVars, cacheVars, analysisVars>>
\* The handler setting the guard before it looks for the container of
\* lines 243-244.
applyPlaceholdersGuardFirst ==
  /\ clicks < MaxClicks
  /\ clicks' = clicks + 1
  /\ IF Len(identifiedFields) = 0
     THEN /\ toast' = "No Fields"
          /\ UNCHANGED <<placeholdersApplied, container>>
     ELSE IF placeholdersApplied
     THEN /\ toast' = "Placeholders Already Applied"
          /\ UNCHANGED <<placeholdersApplied, container>>
     ELSE /\ placeholdersApplied' = TRUE
          /\ IF container = <<>>
             THEN UNCHANGED <<toast, container>>
             ELSE /\ container' =
                       <<applyPlaceholdersOptimized(container[1],
                                                    identifiedFields)>>
                  /\ toast' = "Placeholders Applied"
  /\ UNCHANGED <<identifiedFields, serverVars, cacheVars, analysisVars>>
applyPlaceholders ==
  /\ clicks < MaxClicks
  /\ clicks' = clicks + 1
  /\ IF Len(identifiedFields) = 0
     THEN /\ toast' = "No Fields"
          /\ UNCHANGED <<placeholdersApplied, container>>
     ELSE IF placeholdersApplied
     THEN /\ toast' = "Placeholders Already Applied"
          /\ UNCHANGED <<placeholdersApplied, container>>
     ELSE IF container = <<>>
     THEN UNCHANGED <<toast, placeholdersApplied, container>>
     ELSE /\ container' =
               <<applyPlaceholdersOptimized(container[1], identifiedFields)>>
          /\ placeholdersApplied' = TRUE
          /\ toast' = "Placeholders Applied"
  /\ UNCHANGED <<identifiedFields, serverVars, cacheVars, analysisVars>>

\* The server side at rest.
ServerIdle ==
  /\ documentText = <<>>
  /\ pc = "start"
  /\ processedText = <<>>
  /\ chunks = <<>>
  /\ calls = <<>>
  /\ invocations = <<>>
  /\ results = <<>>
  /\ settleOrder = <<>>
  /\ response = NoResponse

(***************************************************************************)
(* InjectorSpec: the injector on every content and every non-empty field   *)
(* list within the bounds.                                                 *)
(***************************************************************************)
InjectorInit ==
  \E content \in Contents :
    \E fields \in SeqsUpTo(IdentifiedFields, MaxFields) \ {<<>>} :
      /\ ServerIdle /\ CacheIdle /\ AnalysisIdle
      /\ identifiedFields = fields
      /\ placeholdersApplied = FALSE
      /\ container = <<content>>
      /\ toast = ""
      /\ clicks = 0

InjectorNext == applyPlaceholders

InjectorSpec == InjectorInit /\ [][InjectorNext]_vars

(***************************************************************************)
(* The document cache and the effect that extracts the document text       *)
(* (src/unnamed/part_001, 20, 76-92 and 138-165).                          *)
(***************************************************************************)
\* A document is a file name, the byte length of its content and, for files
\* that agree on both, the version of the content.
Document(fileName, byteLength, version) ==
  [fileName |-> fileName, byteLength |-> byteLength, version |-> version]
\* The k-th identity opened in a behaviour: file names are arbitrary, so the
\* files are named in the order they are first opened.
Identity(k) ==
  Document(IF k % 2 = 1 THEN "a.docx" ELSE "b.docx", (k + 1) \div 2, 1)
\* Enough identities to bring the cache two entries above the ceiling.
MaxDocs == CacheCeiling + 2
\* Most getCachedDocument calls awaiting their rendering at one time: as many
\* as it takes to bring a full cache two entries above the ceiling.
MaxLookups == MaxDocs - CacheCeiling
\* The position of a document's identity among the identities.
IdentityIndex(doc) ==
  CHOOSE k \in 1..MaxDocs :
    /\ Identity(k).fileName = doc.fileName
    /\ Identity(k).byteLength = doc.byteLength
\* The first file, and another content with its name and byte length.
FirstDocument == Identity(1)
FirstDocumentAgain ==
  Document(Identity(1).fileName, Identity(1).byteLength, 2)
\* The documents: one per identity, and the other content of the first one.
Documents == {Identity(k) : k \in 1..MaxDocs} \cup {FirstDocumentAgain}

\* `${fileName}-${docxContent.byteLength}`
cacheKey(doc) == <<doc.fileName, "-", doc.byteLength>>

\* chunks.map(processDocumentChunk) joined: the text docx-preview renders,
\* taken as a value that the content determines.
RenderedText(doc) == <<"text", doc.fileName, doc.byteLength, doc.version>>

\* documentCache.get(key), for a key the Map has
MapGet(m, key) == (CHOOSE e \in Range(m) : e.key = key).value
\* Array.from(map.keys())
MapKeys(m) == [i \in DOMAIN m |-> m[i].key]
\* map.delete(key)
MapDelete(m, key) == SelectSeq(m, LAMBDA e : e.key # key)
\* keys.forEach((key) => map.delete(key)), for keys 1..n
RECURSIVE DeleteKeys(_, _, _)
DeleteKeys(m, keys, n) ==
  IF n = 0 THEN m ELSE MapDelete(DeleteKeys(m, keys, n - 1), keys[n])
\* array.slice(0, n)
SliceFirst(array, n) ==
  SubSeq(array, 1, IF n < Len(array) THEN n ELSE Len(array))
\* array.slice(-n)
SliceLast(array, n) ==
  SubSeq(array, IF n < Len(array) THEN Len(array) - n + 1 ELSE 1, Len(array))

\* Lines 82-84 never finding the key.
CachedTextNever(cache, doc) == <<>>
\* Lines 82-84: the text getCachedDocument returns at once (<<>>: the key is
\* not cached)
CachedText(cache, doc) ==
  IF MapHas(cache, cacheKey(doc))
  THEN <<MapGet(cache, cacheKey(doc))>>
  ELSE <<>>

\* Line 90 keeping the text a key already has.
CacheStoreIfAbsent(cache, doc, text) ==
  MapSetKeepFirst(cache, cacheKey(doc), text)
\* Line 90: documentCache.set(cacheKey, processedText)
CacheStore(cache, doc, text) == MapSet(cache, cacheKey(doc), text)

\* The cleanup deleting the keys inserted last.
EffectCleanupNewest(cache) ==
  IF Len(cache) > CacheCeiling
  THEN LET keysToDelete == SliceLast(MapKeys(cache), ShedCount)
       IN DeleteKeys(cache, keysToDelete, Len(keysToDelete))
  ELSE cache
\* Lines 158-164: the cleanup of the effect
EffectCleanup(cache) ==
  IF Len(cache) > CacheCeiling
  THEN LET keysToDelete == SliceFirst(MapKeys(cache), ShedCount)
       IN DeleteKeys(cache, keysToDelete, Len(keysToDelete))
  ELSE cache

\* analyzeDocument and debouncedAnalyze are made anew when documentText
\* changes (lines 215 and 218-221); the timers of the earlier debounced
\* function stay pending.
Retired(pending) ==
  [i \in DOMAIN pending |-> [pending[i] EXCEPT !.current = FALSE]]
TimersAfterText(text) ==
  IF text = documentTextState THEN timers ELSE Retired(timers)

\* The calls in flight have no order of their own: they are kept sorted by
\* identity and version.
DocumentRank(doc) == 2 * IdentityIndex(doc) + doc.version
InFlightWith(pending, doc) ==
  LET before == SelectSeq(pending,
                          LAMBDA d : DocumentRank(d) <= DocumentRank(doc))
      after == SelectSeq(pending,
                         LAMBDA d : DocumentRank(d) > DocumentRank(doc))
  IN before \o <<doc>> \o after

\* The element at index i removed from a sequence.
Without(seq, i) == SubSeq(seq, 1, i - 1) \o SubSeq(seq, i + 1, Len(seq))

\* Lines 158-165: docxContent, fileName or toast is about to change (or the
\* component to unmount), and React runs the cleanup of the effect.
Teardown ==
  /\ effect = "active"
  /\ effect' = "torn"
  /\ documentCache' = EffectCleanup(documentCache)
  /\ UNCHANGED <<docxContent, lookups, documentTextState, opened>>
  /\ UNCHANGED <<serverVars, injectorVars, analysisVars>>

\* Lines 138-156 and 76-87: the effect runs with the props of the render,
\* extractDocumentText calls getCachedDocument, which returns the cached
\* text (then set as documentText) or starts the rendering of the chunks.
RunEffect(content) ==
  /\ effect # "active"
  /\ effect' = "active"
  /\ docxContent' = content
  /\ IF content = <<>>
     THEN UNCHANGED <<lookups, documentTextState, opened, timers>>
     ELSE LET doc == content[1]
              cached == CachedText(documentCache, doc)
          IN /\ IdentityIndex(doc) <= opened + 1
             /\ opened' = IF IdentityIndex(doc) > opened
                          THEN IdentityIndex(doc) ELSE opened
             /\ IF cached # <<>>
                THEN /\ documentTextState' = cached[1]
                     /\ timers' = TimersAfterText(cached[1])
                     /\ UNCHANGED lookups
                ELSE /\ Len(lookups) < MaxLookups
                     /\ lookups' = InFlightWith(lookups, doc)
                     /\ UNCHANGED <<documentTextState, timers>>
  /\ UNCHANGED documentCache
  /\ UNCHANGED <<serverVars, injectorVars, isAnalyzing, runs, completionOrder>>

\* Lines 87-91 and 143-144: the renderings of lookup i have resolved; the
\* text is stored under the key and set as documentText.
LookupResolve(i) ==
  /\ effect = "active"
  /\ LET doc == lookups[i]
         text == RenderedText(doc)
     IN /\ documentCache' = CacheStore(documentCache, doc, text)
        /\ documentTextState' = text
        /\ timers' = TimersAfterText(text)
  /\ lookups' = Without(lookups, i)
  /\ UNCHANGED <<docxContent, effect, opened>>
  /\ UNCHANGED <<serverVars, injectorVars, isAnalyzing, runs, completionOrder>>

\* The failure of line 87 leaving an entry with an empty text under the key.
LookupRejectStoresEmpty(i) ==
  /\ effect = "active"
  /\ lookups' = Without(lookups, i)
  /\ toast' = "Error"
  /\ documentCache' = CacheStore(documentCache, lookups[i], <<>>)
  /\ UNCHANGED <<identifiedFields, placeholdersApplied, container, clicks>>
  /\ UNCHANGED <<docxContent, effect, documentTextState, opened>>
  /\ UNCHANGED <<serverVars, analysisVars>>
\* Lines 87 and 145-152: a rendering of lookup i has thrown; Promise.all
\* rejects, getCachedDocument stores nothing and the catch shows a toast.
LookupReject(i) ==
  /\ effect = "active"
  /\ lookups' = Without(lookups, i)
  /\ toast' = "Error"
  /\ UNCHANGED <<identifiedFields, placeholdersApplied, container, clicks>>
  /\ UNCHANGED <<docxContent, effect, documentCache, documentTextState, opened>>
  /\ UNCHANGED <<serverVars, analysisVars>>

(***************************************************************************)
(* CacheSpec: the files opened one after the other in one component, their *)
(* renderings resolving in any order.                                      *)
(***************************************************************************)
CacheInit == ServerIdle /\ ClientIdle

CacheNext ==
  \/ Teardown
  \/ \E content \in {<<>>} \cup {<<doc>> : doc \in Documents} :
       RunEffect(content)
  \/ \E i \in DOMAIN lookups : LookupResolve(i)
  \/ \E i \in DOMAIN lookups : LookupReject(i)

CacheSpec == CacheInit /\ [][CacheNext]_vars

(***************************************************************************)
(* The analysis runs of the component (src/unnamed/part_001, 167-221 and   *)
(* 290-292).                                                               *)
(***************************************************************************)
\* The prop callback of line 197. The parent that owns the field list is
\* not part of the sources: it is taken to store the list it is given and
\* to hand it back as the identifiedFields prop.
onFieldsIdentified(fields) == fields

\* Lines 290-292 and 218-221: a click on the enabled Analyze button calls
\* the debounced function. While its timer is pending a further call only
\* restarts it, so a click matters when the current function has no timer.
\* The timer holds analyzeDocument with the documentText of its render.
ClickAnalyze ==
  /\ ~isAnalyzing
  /\ docxContent # <<>>
  /\ \A i \in DOMAIN timers : ~timers[i].current
  /\ Len(timers) + Len(runs) < MaxRuns
  /\ timers' = Append(timers, [text |-> documentTextState, current |-> TRUE])
  /\ UNCHANGED <<isAnalyzing, runs, completionOrder>>
  /\ UNCHANGED <<serverVars, injectorVars, cacheVars>>

\* Lines 167-188: the 500 ms of timer i are over and analyzeDocument runs
\* up to its fetch.
TimerFires(i) ==
  /\ timers' = Without(timers, i)
  /\ IF timers[i].text = <<>>
     THEN /\ toast' = "No Document"
          /\ UNCHANGED <<isAnalyzing, runs>>
     ELSE /\ isAnalyzing' = TRUE
          /\ runs' = Append(runs, [status |-> "pending", fields |-> <<>>])
          /\ UNCHANGED toast
  /\ UNCHANGED <<identifiedFields, placeholdersApplied, container, clicks>>
  /\ UNCHANGED <<serverVars, cacheVars, completionOrder>>

\* The continuation of lines 190-214 handing over the fields only when no
\* later run has started.
AnalysisResolvesLatestOnly(r, fields, withMetadata) ==
  /\ runs[r].status = "pending"
  /\ runs' = [runs EXCEPT ![r] = [status |-> "delivered", fields |-> fields]]
  /\ completionOrder' = Append(completionOrder, r)
  /\ identifiedFields' =
       IF r = Len(runs) THEN onFieldsIdentified(fields) ELSE identifiedFields
  /\ toast' = IF withMetadata THEN "Analysis Complete" ELSE "Analysis Failed"
  /\ isAnalyzing' = FALSE
  /\ UNCHANGED <<placeholdersApplied, container, clicks, timers>>
  /\ UNCHANGED <<serverVars, cacheVars>>
\* Lines 190-214: the response of run r is ok and holds a fields array. The
\* list is handed to onFieldsIdentified; the toast then reads
\* object.metadata, which throws into the catch when the response carries
\* no metadata (as that of src/app/api/analyze-document/route.ts).
AnalysisResolves(r, fields, withMetadata) ==
  /\ runs[r].status = "pending"
  /\ runs' = [runs EXCEPT ![r] = [status |-> "delivered", fields |-> fields]]
  /\ completionOrder' = Append(completionOrder, r)
  /\ identifiedFields' = onFieldsIdentified(fields)
  /\ toast' = IF withMetadata THEN "Analysis Complete" ELSE "Analysis Failed"
  /\ isAnalyzing' = FALSE
  /\ UNCHANGED <<placeholdersApplied, container, clicks, timers>>
  /\ UNCHANGED <<serverVars, cacheVars>>

\* Lines 190-192 and 202-214: the fetch of run r throws, the response is not
\* ok, or it holds no fields array.
AnalysisFails(r) ==
  /\ runs[r].status = "pending"
  /\ runs' = [runs EXCEPT ![r] = [status |-> "failed", fields |-> <<>>]]
  /\ completionOrder' = Append(completionOrder, r)
  /\ toast' = "Analysis Failed"
  /\ isAnalyzing' = FALSE
  /\ UNCHANGED <<identifiedFields, placeholdersApplied, container, clicks>>
  /\ UNCHANGED <<serverVars, cacheVars, timers>>

(***************************************************************************)
(* SessionSpec: one editing session of the component, from a render whose  *)
(* document is still being rendered: the first file after the mount, or a  *)
(* second file opened once the first is shown.                             *)
(***************************************************************************)
\* The field lists an analysis may return, and the contents shown.
AnalysisFieldLists == {<<>>, <<FieldA>>, <<FieldDot, FieldA>>}
SessionContents == {<<"a", ".">>}

SessionInit ==
  /\ ServerIdle /\ AnalysisIdle
  /\ identifiedFields = <<>>
  /\ placeholdersApplied = FALSE
  /\ container \in {<<>>} \cup {<<content>> : content \in SessionContents}
  /\ toast = ""
  /\ clicks = 0
  /\ effect = "active"
  /\ \/ /\ docxContent = <<FirstDocument>>
        /\ documentCache = <<>>
        /\ lookups = <<FirstDocument>>
        /\ documentTextState = <<>>
        /\ opened = 1
     \/ /\ docxContent = <<Identity(2)>>
        /\ documentCache =
             CacheStore(<<>>, FirstDocument, RenderedText(FirstDocument))
        /\ lookups = <<Identity(2)>>
        /\ documentTextState = RenderedText(FirstDocument)
        /\ opened = 2

SessionNext ==
  \/ ClickAnalyze
  \/ \E i \in DOMAIN timers : TimerFires(i)
  \/ \E r \in DOMAIN runs : \E fields \in AnalysisFieldLists :
       \E withMetadata \in BOOLEAN : AnalysisResolves(r, fields, withMetadata)
  \/ \E r \in DOMAIN runs : AnalysisFails(r)
  \/ applyPlaceholders
  \/ \E i \in DOMAIN lookups : LookupResolve(i)
  \/ \E i \in DOMAIN lookups : LookupReject(i)

SessionSpec == SessionInit /\ [][SessionNext]_vars

(***************************************************************************)
(* InstanceSpec: one mounted component in which the placeholders are       *)
(* applied while files are opened, the cache is cleaned and an analysis    *)
(* completes. It starts where the cache has reached the ceiling: the first *)
(* CacheCeiling files were opened and rendered one after the other, the    *)
(* last of them is shown, a first analysis has handed over one field and a *)
(* second one, started by a further click, awaits its response.            *)
(***************************************************************************)
\* The cache after the first n files were rendered in the order opened.
RECURSIVE CacheOfFirst(_)
CacheOfFirst(n) ==
  IF n = 0
  THEN <<>>
  ELSE CacheStore(CacheOfFirst(n - 1), Identity(n), RenderedText(Identity(n)))

\* The files opened from there on: the one shown, and files not opened yet.
InstanceContents == {<<Identity(k)>> : k \in CacheCeiling..MaxDocs}

InstanceInit ==
  /\ ServerIdle
  /\ identifiedFields = onFieldsIdentified(<<FieldA>>)
  /\ placeholdersApplied = FALSE
  /\ container \in {<<>>} \cup {<<content>> : content \in SessionContents}
  /\ toast = "Analysis Complete"
  /\ clicks = 0
  /\ docxContent = <<Identity(CacheCeiling)>>
  /\ effect = "active"
  /\ documentCache = CacheOfFirst(CacheCeiling)
  /\ lookups = <<>>
  /\ documentTextState = RenderedText(Identity(CacheCeiling))
  /\ opened = CacheCeiling
  /\ isAnalyzing = TRUE
  /\ timers = <<>>
  /\ runs = <<[status |-> "delivered", fields |-> <<FieldA>>],
              [status |-> "pending", fields |-> <<>>]>>
  /\ completionOrder = <<1>>

InstanceNext ==
  \/ Teardown
  \/ \E content \in InstanceContents : RunEffect(content)
  \/ \E i \in DOMAIN lookups : LookupResolve(i)
  \/ \E i \in DOMAIN lookups : LookupReject(i)
  \/ \E r \in DOMAIN runs : \E fields \in AnalysisFieldLists :
       \E withMetadata \in BOOLEAN : AnalysisResolves(r, fields, withMetadata)
  \/ \E r \in DOMAIN runs : AnalysisFails(r)
  \/ applyPlaceholders

InstanceSpec == InstanceInit /\ [][InstanceNext]_vars

(***************************************************************************)
(* Vocabulary of the claims.                                               *)
(***************************************************************************)
Answered200 == response.status = 200
\* The field list of the 200 response.
MergedFields == response.object[1].fields
\* The candidates chunk i's extraction call returned.
OutputOf(i) == results[i][1].object.fields
\* The places <<chunk, index>> of the returned candidates, the candidate at
\* a place, and the flattened chunk order of the places.
Places ==
  UNION {{<<i, j>> : j \in DOMAIN OutputOf(i)} :
           i \in {c \in DOMAIN results : results[c] # Unsettled}}
At(p) == OutputOf(p[1])[p[2]]
Before(p, q) == p[1] < q[1] \/ (p[1] = q[1] /\ p[2] < q[2])
PlacesOf(anchor) == {p \in Places : At(p).replacement = anchor}
FirstPlaceOf(anchor) ==
  CHOOSE p \in PlacesOf(anchor) : \A q \in PlacesOf(anchor) : ~Before(q, p)
LastPlaceOf(anchor) ==
  CHOOSE p \in PlacesOf(anchor) : \A q \in PlacesOf(anchor) : ~Before(p, q)
CandidateAnchors == {At(p).replacement : p \in Places}
\* The anchors that two or more candidates share.
SharedAnchors == {a \in CandidateAnchors : Cardinality(PlacesOf(a)) >= 2}
\* The positions of the merged list that hold anchor a.
MergedWith(anchor) ==
  {k \in DOMAIN MergedFields : MergedFields[k].replacement = anchor}
\* Field f carries the name, type, description, placeholder and required
\* values of candidate c.
SameMetadata(f, c) ==
  /\ f.name = c.name
  /\ f.type = c.type
  /\ f.description = c.description
  /\ f.placeholder = c.placeholder
  /\ f.required = c.required

(***************************************************************************)
(* C1. The field list returned by mergeFieldResults holds no two fields    *)
(* with the same replacement string.                                       *)
(***************************************************************************)
C1_UniqueReplacement ==
  Answered200 =>
    \A j, k \in DOMAIN MergedFields :
      MergedFields[j].replacement = MergedFields[k].replacement => j = k

\* A merge of candidates that repeat an anchor, leaving two or more fields.
C1_Witness ==
  /\ pc = "done"
  /\ Answered200
  /\ SharedAnchors # {}
  /\ Len(MergedFields) >= 2

(***************************************************************************)
(* C2. When two or more candidates share an anchor, the merged result      *)
(* holds exactly one field with that anchor, and its name, type,           *)
(* description, placeholder and required are those of the candidate that   *)
(* comes last in flattened chunk order.                                    *)
(***************************************************************************)
C2_LastWriteWins ==
  Answered200 =>
    \A a \in SharedAnchors :
      /\ Cardinality(MergedWith(a)) = 1
      /\ \A k \in MergedWith(a) :
           SameMetadata(MergedFields[k], At(LastPlaceOf(a)))

\* Two chunks returned the same anchor with different metadata.
C2_Witness ==
  /\ pc = "done"
  /\ Answered200
  /\ \E a \in SharedAnchors :
       /\ FirstPlaceOf(a)[1] # LastPlaceOf(a)[1]
       /\ ~SameMetadata(At(FirstPlaceOf(a)), At(LastPlaceOf(a)))

(***************************************************************************)
(* C3. If the extraction call of any chunk fails, the request ends in one  *)
(* failure response, status 500, that carries no field list, whatever the  *)
(* other chunks returned; the response once given never changes, and every *)
(* chunk's extraction is called once only.                                 *)
(***************************************************************************)
C3_FailFast ==
  /\ [](/\ (\E i \in DOMAIN calls : calls[i] = "rejected") =>
             response = ErrorResponse(500, "Failed to analyze document")
        /\ \A i \in DOMAIN invocations : invocations[i] = 1)
  /\ [][response # NoResponse => response' = response]_vars

\* One chunk failed after another had returned fields.
C3_Witness ==
  /\ response.status = 500
  /\ response.object = <<>>
  /\ \E i \in DOMAIN calls : calls[i] = "rejected"
  /\ \E i \in DOMAIN calls :
       calls[i] = "fulfilled" /\ OutputOf(i) # <<>>

(***************************************************************************)
(* C4. Whatever the order in which the chunk calls complete, the results   *)
(* are joined in chunk order: the merged list holds the anchors in the     *)
(* order of their first place in chunk order, and on a collision the       *)
(* candidate of the last place in chunk order wins.                        *)
(***************************************************************************)
C4_JoinedInChunkOrder ==
  Answered200 =>
    /\ \A a \in CandidateAnchors :
         /\ Cardinality(MergedWith(a)) = 1
         /\ \A k \in MergedWith(a) :
              SameMetadata(MergedFields[k], At(LastPlaceOf(a)))
    /\ \A j, k \in DOMAIN MergedFields :
         j < k => Before(FirstPlaceOf(MergedFields[j].replacement),
                         FirstPlaceOf(MergedFields[k].replacement))
    /\ \A k \in DOMAIN MergedFields :
         MergedFields[k].replacement \in CandidateAnchors

\* A later chunk completed before an earlier one, and the two collide on an
\* anchor with different metadata.
C4_Witness ==
  /\ Answered200
  /\ \E j, k \in DOMAIN settleOrder : j < k /\ settleOrder[j] > settleOrder[k]
  /\ \E a \in SharedAnchors :
       /\ FirstPlaceOf(a)[1] # LastPlaceOf(a)[1]
       /\ ~SameMetadata(At(FirstPlaceOf(a)), At(LastPlaceOf(a)))

(***************************************************************************)
(* C5. Every chunk is at most CHUNK_SIZE long, except a chunk that is one  *)
(* single sentence which alone is longer than CHUNK_SIZE.                  *)
(***************************************************************************)
OversizedSentences ==
  {s \in Range(Sentences(processedText)) : Len(s) > CHUNK_SIZE}

C5_ChunkWithinLimit ==
  \A k \in DOMAIN chunks :
    \/ Len(chunks[k]) <= CHUNK_SIZE
    \/ \E s \in OversizedSentences : chunks[k] = trim(s)

\* Several chunks, one of them an oversized sentence, one of them made of
\* two sentences.
C5_Witness ==
  /\ pc = "awaiting"
  /\ Len(chunks) >= 2
  /\ \E k \in DOMAIN chunks : Len(chunks[k]) > CHUNK_SIZE
  /\ \E k \in DOMAIN chunks :
       chunks[k] \notin {trim(s) : s \in Range(Sentences(processedText))}

(***************************************************************************)
(* C6. When no sentence of the normalized text exceeds CHUNK_SIZE, the     *)
(* chunks concatenated in order are the normalized text up to the white    *)
(* space trimmed from the chunks: no other character is lost or reordered. *)
(***************************************************************************)
RECURSIVE Concat(_, _)
Concat(seqs, n) == IF n = 0 THEN <<>> ELSE Concat(seqs, n - 1) \o seqs[n]
WithoutWhiteSpace(s) == SelectSeq(s, LAMBDA c : c \notin WhiteSpace)

C6_ChunksReconstructText ==
  (pc = "awaiting" /\ OversizedSentences = {}) =>
    WithoutWhiteSpace(Concat(chunks, Len(chunks)))
      = WithoutWhiteSpace(processedText)

(***************************************************************************)
(* C7. Every field of the merged result whose type is date, email, phone,  *)
(* number or address has confidence low if its replacement fails the       *)
(* type's pattern and high if it matches; a field of any other type has    *)
(* confidence high.                                                        *)
(***************************************************************************)
C7_Confidence ==
  Answered200 =>
    \A k \in DOMAIN MergedFields :
      LET f == MergedFields[k]
      IN IF f.type \in PatternTypes
         THEN f.confidence =
                IF PatternTest(f.type, f.replacement) THEN "high" ELSE "low"
         ELSE f.confidence = "high"

\* One result with a failed pattern, a matched pattern and a type without
\* pattern.
C7_Witness ==
  /\ Answered200
  /\ \E k \in DOMAIN MergedFields :
       MergedFields[k].type \in PatternTypes
       /\ MergedFields[k].confidence = "low"
  /\ \E k \in DOMAIN MergedFields :
       MergedFields[k].type \in PatternTypes
       /\ MergedFields[k].confidence = "high"
  /\ \E k \in DOMAIN MergedFields :
       MergedFields[k].type \notin PatternTypes
       /\ MergedFields[k].confidence = "high"

(***************************************************************************)
(* C8. Field A's relationships hold field B's name only if B is another    *)
(* field of the same merged result and the anchors of A and B share at     *)
(* least two case-insensitive white-space-delimited tokens.                *)
(***************************************************************************)
\* The white-space-delimited tokens of s from index i on.
RECURSIVE TokensFrom(_, _)
TokensFrom(s, i) ==
  IF i > Len(s) THEN {}
  ELSE IF s[i] \in WhiteSpace THEN TokensFrom(s, i + 1)
  ELSE LET j == RunEndNotIn(s, i, WhiteSpace)
       IN {SubSeq(s, i, j - 1)} \cup TokensFrom(s, j)
SharedTokens(a, b) ==
  TokensFrom(toLowerCase(a), 1) \cap TokensFrom(toLowerCase(b), 1)

C8_RelationshipsShareTwoTokens ==
  Answered200 =>
    \A j \in DOMAIN MergedFields :
      \A n \in Range(MergedFields[j].relationships) :
        \E k \in DOMAIN MergedFields :
          /\ k # j
          /\ MergedFields[k].name = n
          /\ Cardinality(SharedTokens(MergedFields[j].replacement,
                                      MergedFields[k].replacement)) >= 2

(***************************************************************************)
(* C9. Linking is symmetric: for two distinct fields A and B of a merged   *)
(* result, B's name is in A's relationships if and only if A's name is in  *)
(* B's relationships.                                                      *)
(***************************************************************************)
C9_RelationshipsSymmetric ==
  Answered200 =>
    \A j, k \in DOMAIN MergedFields :
      j # k =>
        (MergedFields[k].name \in Range(MergedFields[j].relationships)
           <=> MergedFields[j].name \in Range(MergedFields[k].relationships))

\* The filter is symmetric in the two fields: when the names of the merged
\* result are unique (C10), the linking by name is symmetric.
C9_SymmetricWhenNamesUnique ==
  (Answered200 /\ \A j, k \in DOMAIN MergedFields :
                    MergedFields[j].name = MergedFields[k].name => j = k)
    => C9_RelationshipsSymmetric

(***************************************************************************)
(* C10. No two fields of a merged result have the same name.               *)
(***************************************************************************)
C10_UniqueName ==
  Answered200 =>
    \A j, k \in DOMAIN MergedFields :
      MergedFields[j].name = MergedFields[k].name => j = k

C18_StrictReclassifies ==
  Answered200 =>
    /\ Len(MergedFields) = Cardinality(CandidateAnchors)
    /\ \A k \in DOMAIN MergedFields :
         LET f == MergedFields[k]
             declared == At(LastPlaceOf(f.replacement)).type
         IN IF declared \in PatternTypes
               /\ ~PatternTest(declared, f.replacement)
            THEN /\ f.type = "text"
                 /\ f.confidence = "low"
                 /\ f.originalType = <<declared>>
            ELSE /\ f.type = declared
                 /\ f.confidence = "high"
                 /\ f.originalType = <<>>

\* One result with a reclassified field, a field that matches its pattern
\* and a field of a type without pattern.
C18_Witness ==
  /\ Answered200
  /\ \E k \in DOMAIN MergedFields :
       /\ MergedFields[k].originalType # <<>>
       /\ MergedFields[k].originalType[1] \in PatternTypes \ {"text"}
       /\ MergedFields[k].type = "text"
  /\ \E k \in DOMAIN MergedFields :
       MergedFields[k].type \in PatternTypes
       /\ MergedFields[k].confidence = "high"
  /\ \E k \in DOMAIN MergedFields :
       MergedFields[k].type \notin PatternTypes
       /\ MergedFields[k].confidence = "high"

(***************************************************************************)
(* C19. The merged list has one field per distinct anchor; the field at    *)
(* position k holds the anchor whose first occurrence is the k-th among    *)
(* the first occurrences, and carries the metadata of the last candidate   *)
(* with that anchor.                                                       *)
(***************************************************************************)
\* The number of distinct anchors that first occur before anchor a does.
AnchorsFirstSeenBefore(a) ==
  Cardinality({b \in CandidateAnchors :
                 Before(FirstPlaceOf(b), FirstPlaceOf(a))})

C19_FirstPositionLastMetadata ==
  Answered200 =>
    /\ Len(MergedFields) = Cardinality(CandidateAnchors)
    /\ \A k \in DOMAIN MergedFields :
         LET a == MergedFields[k].replacement
         IN /\ a \in CandidateAnchors
            /\ AnchorsFirstSeenBefore(a) = k - 1
            /\ SameMetadata(MergedFields[k], At(LastPlaceOf(a)))

\* An anchor occurs, then another anchor, then the first anchor again with
\* other metadata.
C19_Witness ==
  /\ Answered200
  /\ \E a \in SharedAnchors : \E b \in CandidateAnchors \ {a} :
       /\ Before(FirstPlaceOf(a), FirstPlaceOf(b))
       /\ Before(FirstPlaceOf(b), LastPlaceOf(a))
       /\ ~SameMetadata(At(FirstPlaceOf(a)), At(LastPlaceOf(a)))

(***************************************************************************)
(* C11. For every content and every non-empty field list, the injector     *)
(* returns the content with one space and the field's placeholder inserted *)
(* behind each matched occurrence of a field's anchor, every character of  *)
(* the content kept in its place and order. An anchor matches only where   *)
(* the content holds exactly its characters, whatever they mean in a       *)
(* regular expression. Occurrences are matched from left to right without  *)
(* overlap; of several anchors occurring at one place the one listed first *)
(* is matched; of several fields with one anchor the last gives the        *)
(* placeholder.                                                            *)
(***************************************************************************)
\* The content holds exactly the characters of anchor from index i on.
OccursAt(anchor, content, i) ==
  /\ i + Len(anchor) - 1 <= Len(content)
  /\ SubSeq(content, i, i + Len(anchor) - 1) = anchor

\* The first field of the list whose anchor occurs at i (0: none).
FieldMatchedAt(content, i, fields) ==
  LET occurring ==
        {j \in DOMAIN fields : OccursAt(fields[j].replacement, content, i)}
  IN IF occurring = {} THEN 0
     ELSE CHOOSE j \in occurring : \A k \in occurring : j <= k

\* The placeholder of the last field of the list with this anchor.
PlaceholderOfAnchor(fields, anchor) ==
  LET with == {j \in DOMAIN fields : fields[j].replacement = anchor}
  IN fields[CHOOSE j \in with : \A k \in with : k <= j].placeholder

\* The content from index i on, with the insertions behind the anchors.
RECURSIVE InsertedBehindAnchors(_, _, _)
InsertedBehindAnchors(content, i, fields) ==
  LET j == FieldMatchedAt(content, i, fields)
      anchor == fields[j].replacement
      inserted == <<" ">> \o PlaceholderOfAnchor(fields, anchor)
      copied == IF i > Len(content) THEN <<>>
                ELSE <<content[i]>>
                     \o InsertedBehindAnchors(content, i + 1, fields)
  IN IF i > Len(content) + 1 THEN <<>>
     ELSE IF j = 0 THEN copied
     ELSE IF anchor = <<>> THEN inserted \o copied
     ELSE anchor \o inserted
          \o InsertedBehindAnchors(content, i + Len(anchor), fields)

C11_InsertsBehindAnchors ==
  [][(~placeholdersApplied /\ placeholdersApplied')
       => container' =
            <<InsertedBehindAnchors(container[1], 1, identifiedFields)>>]_vars

\* "Full Name: ____" has become "Full Name: [[FULL_NAME]] ____", with a
\* field in the list whose anchor is a dot.
C11_Witness ==
  /\ placeholdersApplied
  /\ container = <<StrFullNameInjected>>
  /\ FieldDot \in Range(identifiedFields)

(***************************************************************************)
(* Vocabulary of the cache claims.                                         *)
(***************************************************************************)
\* The step is a run of the effect, calling getCachedDocument for the
\* document of the new props.
EffectRuns == effect # "active" /\ effect' = "active" /\ docxContent' # <<>>
\* The step is the cleanup of the effect.
CleanupRuns == effect = "active" /\ effect' = "torn"
\* The key under which a rendered text is stored.
KeyOfText(text) == <<text[2], "-", text[3]>>

(***************************************************************************)
(* C13. A getCachedDocument call for an identity key that the cache holds  *)
(* returns the stored text, starts no rendering and leaves the cache as it *)
(* is.                                                                     *)
(***************************************************************************)
C13_HitReturnsStored ==
  [][(EffectRuns /\ MapHas(documentCache, cacheKey(docxContent'[1])))
       => /\ documentTextState' =
               MapGet(documentCache, cacheKey(docxContent'[1]))
          /\ lookups' = lookups
          /\ documentCache' = documentCache]_vars

\* A second content with the name and length of the first file was opened
\* while the first was cached: the text of the first is shown and nothing
\* is being rendered.
C13_Witness ==
  /\ effect = "active"
  /\ docxContent = <<FirstDocumentAgain>>
  /\ lookups = <<>>
  /\ MapHas(documentCache, cacheKey(FirstDocument))
  /\ MapGet(documentCache, cacheKey(FirstDocument))
       = RenderedText(FirstDocument)
  /\ documentTextState = RenderedText(FirstDocument)

(***************************************************************************)
(* C14. In every reachable state the cache holds at most one entry more    *)
(* than the ceiling.                                                       *)
(***************************************************************************)
C14_CacheWithinCapacity == Len(documentCache) <= CacheCeiling + 1

(***************************************************************************)
(* C15. The cleanup of the effect, run on a cache above the ceiling,       *)
(* deletes the ShedCount entries inserted first and keeps the others, in   *)
(* their order and with their values; run on a cache at or below the       *)
(* ceiling it deletes nothing. The order is that of first insertion: no    *)
(* other step removes or reorders a key, and a new key goes to the end.    *)
(***************************************************************************)
C15_EvictsOldest ==
  [][IF CleanupRuns
     THEN documentCache' =
            IF Len(documentCache) > CacheCeiling
            THEN SubSeq(documentCache, ShedCount + 1, Len(documentCache))
            ELSE documentCache
     ELSE \/ MapKeys(documentCache') = MapKeys(documentCache)
          \/ /\ Len(documentCache') = Len(documentCache) + 1
             /\ SubSeq(MapKeys(documentCache'), 1, Len(documentCache))
                  = MapKeys(documentCache)]_vars

\* The first file was stored first and set again last, and the cleanup
\* that found the cache one above the ceiling has deleted it.
C15_Witness ==
  /\ effect = "torn"
  /\ documentTextState = RenderedText(FirstDocument)
  /\ ~MapHas(documentCache, cacheKey(FirstDocument))
  /\ Len(documentCache) = CacheCeiling + 1 - ShedCount

(***************************************************************************)
(* C20. A getCachedDocument call for a key the cache does not hold starts  *)
(* its own rendering even when a call for the same key is in flight. The   *)
(* cache never holds two entries for one key, and the text a call has      *)
(* stored last under a key is the value of that key: the text last handed  *)
(* to the component is what the cache holds for its key, while it holds    *)
(* the key.                                                                *)
(***************************************************************************)
C20_LastStoreWins ==
  /\ [](/\ \A i, j \in DOMAIN documentCache :
             documentCache[i].key = documentCache[j].key => i = j
        /\ (documentTextState # <<>>
            /\ MapHas(documentCache, KeyOfText(documentTextState)))
             => MapGet(documentCache, KeyOfText(documentTextState))
                  = documentTextState)
  /\ [][(EffectRuns /\ ~MapHas(documentCache, cacheKey(docxContent'[1])))
          => Len(lookups') = Len(lookups) + 1]_vars

\* The first file was opened twice, with different contents, before either
\* call had stored: both renderings were started, the call for the second
\* content has stored its text, and the call for the first is still to
\* store over it.
C20_Witness ==
  /\ opened = 1
  /\ lookups = <<FirstDocument>>
  /\ Len(documentCache) = 1
  /\ MapGet(documentCache, cacheKey(FirstDocument))
       = RenderedText(FirstDocumentAgain)
  /\ documentTextState = RenderedText(FirstDocumentAgain)

(***************************************************************************)
(* Vocabulary of the session claims.                                       *)
(***************************************************************************)
\* The step is an invocation of applyPlaceholders.
Invoked == clicks' # clicks
\* The content holds an inserted placeholder.
Injected == container # <<>> /\ "[" \in Range(container[1])
\* The runs that have handed over their fields, and the one that did last.
Delivered == {r \in DOMAIN runs : runs[r].status = "delivered"}
LastDelivered ==
  LET places == {k \in DOMAIN completionOrder : completionOrder[k] \in Delivered}
  IN completionOrder[CHOOSE k \in places : \A j \in places : j <= k]

(***************************************************************************)
(* C12. In one session the invocations of applyPlaceholders change the     *)
(* content at most once: the content changes only in an invocation that    *)
(* finds the guard unset and sets it, the guard stays set, and every       *)
(* invocation that finds it set leaves the content as it is and reports    *)
(* "Placeholders Already Applied".                                         *)
(***************************************************************************)
C12_AppliesOnce ==
  [][/\ container' # container => (~placeholdersApplied /\ placeholdersApplied')
     /\ placeholdersApplied => placeholdersApplied'
     /\ (Invoked /\ placeholdersApplied)
          => /\ container' = container
             /\ toast' = "Placeholders Already Applied"]_vars

\* C12 as it holds: an invocation that finds the guard set leaves the
\* content as it is, and reports "Placeholders Already Applied" when the
\* field list is not empty, "No Fields" when it is.
C12_AppliesOnceOrNoFields ==
  [][/\ container' # container => (~placeholdersApplied /\ placeholdersApplied')
     /\ placeholdersApplied => placeholdersApplied'
     /\ (Invoked /\ placeholdersApplied)
          => /\ container' = container
             /\ toast' = IF identifiedFields = <<>>
                         THEN "No Fields"
                         ELSE "Placeholders Already Applied"]_vars

\* Placeholders were injected, and a later invocation was turned away.
C12_Witness ==
  /\ placeholdersApplied
  /\ Injected
  /\ clicks >= 2
  /\ toast = "Placeholders Already Applied"

(***************************************************************************)
(* C17. Starting an analysis while another is pending does not end the     *)
(* pending one: a run leaves the pending state only by its own completion. *)
(* A run that completes with a field list hands it over at that moment,    *)
(* and the list held is always that of the run that handed over last,      *)
(* whichever run started last.                                             *)
(***************************************************************************)
C17_LastCompletedWins ==
  /\ [](Delivered # {} => identifiedFields = runs[LastDelivered].fields)
  /\ [][\A r \in DOMAIN runs :
          runs'[r] # runs[r]
            => /\ runs[r].status = "pending"
               /\ completionOrder' = Append(completionOrder, r)
               /\ runs'[r].status = "delivered"
                    => identifiedFields' = runs'[r].fields]_vars

\* Two runs were pending together; the second has completed first and the
\* first last, with another list, which is the one held.
C17_Witness ==
  /\ completionOrder = <<2, 1>>
  /\ Delivered = {1, 2}
  /\ runs[1].fields # runs[2].fields
  /\ identifiedFields = runs[1].fields

(***************************************************************************)
(* C21. In one mounted component the guard placeholdersApplied never goes  *)
(* back to false, whatever step is taken (a file is opened, the cleanup    *)
(* deletes from the cache, an analysis hands over its fields); it becomes  *)
(* true only in an invocation of applyPlaceholders that finds a field list *)
(* that is not empty and a container, and writes the updated content; and  *)
(* every invocation that finds it true changes nothing and reports         *)
(* "Placeholders Already Applied".                                         *)
(***************************************************************************)
C21_GuardMonotonic ==
  [][/\ placeholdersApplied => placeholdersApplied'
     /\ (~placeholdersApplied /\ placeholdersApplied')
          => /\ Invoked
             /\ identifiedFields # <<>>
             /\ container # <<>>
             /\ container' =
                  <<applyPlaceholdersOptimized(container[1], identifiedFields)>>
     /\ (Invoked /\ placeholdersApplied)
          => /\ UNCHANGED <<container, identifiedFields>>
             /\ toast' = "Placeholders Already Applied"]_vars

\* C21 as it holds: an invocation that finds the guard true changes nothing,
\* and reports "Placeholders Already Applied" when the field list is not
\* empty, "No Fields" when an analysis has meanwhile handed over an empty
\* list.
C21_GuardMonotonicOrNoFields ==
  [][/\ placeholdersApplied => placeholdersApplied'
     /\ (~placeholdersApplied /\ placeholdersApplied')
          => /\ Invoked
             /\ identifiedFields # <<>>
             /\ container # <<>>
             /\ container' =
                  <<applyPlaceholdersOptimized(container[1], identifiedFields)>>
     /\ (Invoked /\ placeholdersApplied)
          => /\ UNCHANGED <<container, identifiedFields>>
             /\ toast' = IF identifiedFields = <<>>
                         THEN "No Fields"
                         ELSE "Placeholders Already Applied"]_vars

\* The placeholders of the first analysis were injected; since then the
\* second analysis has handed over another list, and an invocation was
\* turned away; another file is shown and the cleanup has deleted the file
\* stored first.
C21_Witness ==
  /\ placeholdersApplied
  /\ container # <<>>
  /\ container = <<applyPlaceholdersOptimized(<<"a", ".">>, <<FieldA>>)>>
  /\ identifiedFields = <<FieldDot, FieldA>>
  /\ toast = "Placeholders Already Applied"
  /\ docxContent # <<Identity(CacheCeiling)>>
  /\ documentTextState # RenderedText(Identity(CacheCeiling))
  /\ ~MapHas(documentCache, cacheKey(FirstDocument))

(***************************************************************************)
(* C22. When a rendering fails during a cache miss, the getCachedDocument  *)
(* call stores nothing: the cache is exactly as it was, documentText is    *)
(* not set, and the error toast is shown. A call in flight ends in one of  *)
(* two ways only, its text stored and set, or nothing changed but the      *)
(* toast. The failure leaves no entry behind, so a later call for the same *)
(* key that finds no entry is a miss again and starts its rendering.       *)
(***************************************************************************)
C22_FailureStoresNothing ==
  [][/\ (toast # "Error" /\ toast' = "Error")
          => /\ Len(lookups') = Len(lookups) - 1
             /\ documentCache' = documentCache
             /\ documentTextState' = documentTextState
     /\ Len(lookups') < Len(lookups)
          => \E i \in DOMAIN lookups :
               /\ lookups' = Without(lookups, i)
               /\ \/ /\ documentCache' =
                          MapSet(documentCache, cacheKey(lookups[i]),
                                 RenderedText(lookups[i]))
                     /\ documentTextState' = RenderedText(lookups[i])
                     /\ toast' = toast
                  \/ /\ documentCache' = documentCache
                     /\ documentTextState' = documentTextState
                     /\ toast' = "Error"
     /\ (EffectRuns /\ ~MapHas(documentCache, cacheKey(docxContent'[1])))
          => lookups' = InFlightWith(lookups, docxContent'[1])]_vars

\* A rendering of the first file has failed and nothing was stored or set;
\* the file was opened again since, and its rendering was started again. As
\* many calls are in flight as there can be, so the last of them was made
\* after the failed one had ended.
C22_Witness ==
  /\ toast = "Error"
  /\ opened = 1
  /\ documentCache = <<>>
  /\ documentTextState = <<>>
  /\ Len(lookups) = MaxLookups
  /\ \A i \in DOMAIN lookups : cacheKey(lookups[i]) = cacheKey(FirstDocument)

====
